---- MODULE Spec2Model ----
(***************************************************************************)
(* Magic-square cipher: the square generator, validator and transformer   *)
(* of magic_square.py and the cipher engine and key codec of cipher.py.   *)
(*                                                                         *)
(* numpy arrays are functions over 0..n-1 (a grid is a function of rows,   *)
(* each a function of columns); Python strings are sequences of character  *)
(* codes (ord), so that XOR, formatting and parsing are computed.          *)
(***************************************************************************)
EXTENDS Integers, Sequences, FiniteSets, TLC

VARIABLES
    pc,             \* position of the driver: which call has returned
    requested,      \* create_square's size argument (0: grid given from outside)
    arg,            \* the grid passed to transform_magic_square
    square,         \* transform_magic_square's working grid
    amount,         \* transform_magic_square's amount argument
    remaining,      \* iterations of the transformation loop still to run
    operation,      \* the operation drawn by the last iteration (-1: none yet)
    returned,       \* the grid transform_magic_square returned
    shares,         \* TRUE: the working grid is a view of arg's memory
    turns,          \* quarter turns (counterclockwise) of the view over its memory
    mode,           \* "basic" or "enhanced" engine
    text,           \* encrypt's plaintext argument
    layout,         \* the flattened square encrypt used
    offset,         \* the XOR offset encrypt_enhanced drew
    filler,         \* encrypt's filler (`empty`) when it returned
    ciphertext,     \* encrypt's ciphertext / decrypt's text argument
    key,            \* encrypt's key / decrypt's key argument
    keyGiven,       \* FALSE: decrypt is called with key = None
    result          \* what decrypt did: a returned pair or a raised exception

vars == <<pc, requested, arg, square, amount, remaining, operation, returned,
          shares, turns, mode, text, layout, offset, filler, ciphertext, key, keyGiven, result>>

squareVars == <<requested, arg, square, amount, remaining, operation, returned,
                shares, turns>>
cipherVars == <<mode, text, layout, offset, filler, ciphertext, key, keyGiven, result>>

(***************************************************************************)
(* Bounds of the model.                                                    *)
(***************************************************************************)
MaxOrder == 12
MaxTransformOrder == 8
MaxAmount == 2

(***************************************************************************)
(* Grids.                                                                  *)
(***************************************************************************)
Rows(g) == Cardinality(DOMAIN g)
Cols(g) == Cardinality(DOMAIN g[0])

RECURSIVE SumTo(_, _)
SumTo(f, k) == IF k < 0 THEN 0 ELSE f[k] + SumTo(f, k - 1)

Min(a, b) == IF a <= b THEN a ELSE b

(***************************************************************************)
(* magic_square.py: create_odd_square (Siamese method).                    *)
(***************************************************************************)
RECURSIVE OddAdjust(_)
OddAdjust(size) ==
    IF size <= 2 \/ size % 2 = 0 THEN OddAdjust(size + 1) ELSE size

\* The while loop, one cursor state st = [sq, count, row, col] per iteration.
\* SiameseRun is the loop's iterations while the cursor finds empty cells;
\* SiameseFill resumes it after each occupied cell, until count > size ** 2.
RECURSIVE SiameseRun(_, _)
SiameseRun(st, size) ==
    IF st.count > size * size \/ st.sq[st.row][st.col] # 0 THEN st
    ELSE SiameseRun([sq |-> [st.sq EXCEPT ![st.row][st.col] = st.count],
                     count |-> st.count + 1,
                     row |-> (st.row - 1) % size,
                     col |-> (st.col + 1) % size], size)

RECURSIVE SiameseFill(_, _)
SiameseFill(st, size) ==
    IF st.count > size * size THEN st.sq
    ELSE IF st.sq[st.row][st.col] = 0
         THEN SiameseFill(SiameseRun(st, size), size)
         ELSE SiameseFill([st EXCEPT !.row = (st.row + 2) % size,
                                     !.col = (st.col - 1) % size], size)

create_odd_square(size0) ==
    LET size == OddAdjust(size0)
        zeros == [r \in 0..size - 1 |-> [c \in 0..size - 1 |-> 0]]
    IN  SiameseFill([sq |-> zeros, count |-> 1, row |-> 0, col |-> size \div 2], size)

(***************************************************************************)
(* magic_square.py: create_double_even_square.                             *)
(***************************************************************************)
RECURSIVE DoubleEvenAdjust(_)
DoubleEvenAdjust(size) ==
    IF size % 4 # 0 THEN DoubleEvenAdjust(size + 1) ELSE size

\* The cells the quarter loop overwrites with the reverse square's values.
QuarterCells(size) ==
    UNION { LET first_row == qrt_row * 4
                first_col == qrt_col * 4
                last_row == first_row + 3
                last_col == first_col + 3
            IN  UNION { { <<first_row, first_col + i>>,
                          <<last_row, first_col + i>>,
                          <<first_row + i, first_col>>,
                          <<first_row + i, last_col>> } : i \in {1, 2} }
            : qrt_row \in 0..(size \div 4) - 1, qrt_col \in 0..(size \div 4) - 1 }

create_double_even_square_keepcolumns(size0) ==
    LET size == DoubleEvenAdjust(size0)
        start == 1
        stop == start + size * size
        plain == [r \in 0..size - 1 |-> [c \in 0..size - 1 |-> start + r * size + c]]
        reverse_square ==
            [r \in 0..size - 1 |-> [c \in 0..size - 1 |-> (stop - 1) - (r * size + c)]]
        cells == { p \in QuarterCells(size) : p[1] % 4 \in {0, 3} }
    IN  [r \in 0..size - 1 |-> [c \in 0..size - 1 |->
            IF <<r, c>> \in cells THEN reverse_square[r][c] ELSE plain[r][c]]]

create_double_even_square(size0) ==
    LET size == DoubleEvenAdjust(size0)
        start == 1
        stop == start + size * size
        plain == [r \in 0..size - 1 |-> [c \in 0..size - 1 |-> start + r * size + c]]
        reverse_square ==
            [r \in 0..size - 1 |-> [c \in 0..size - 1 |-> (stop - 1) - (r * size + c)]]
        cells == QuarterCells(size)
    IN  [r \in 0..size - 1 |-> [c \in 0..size - 1 |->
            IF <<r, c>> \in cells THEN reverse_square[r][c] ELSE plain[r][c]]]

(***************************************************************************)
(* magic_square.py: create_square.                                         *)
(***************************************************************************)
RECURSIVE create_square(_)
create_square(size) ==
    IF size < 3 THEN create_square(size + 1)
    ELSE IF size % 2 # 0 THEN create_odd_square(size)
    ELSE IF size % 4 = 0 THEN create_double_even_square(size)
    ELSE create_square(size + 1)

(***************************************************************************)
(* magic_square.py: check_square_magic.                                    *)
(***************************************************************************)
check_square_magic(sq) ==
    IF Rows(sq) # Cols(sq) THEN FALSE
    ELSE LET order == Rows(sq)
             magic_const == (order * (order * order + 1)) \div 2
             column(i) == [r \in 0..order - 1 |-> sq[r][i]]
             diag == [i \in 0..order - 1 |-> sq[i][i]]
             anti == [i \in 0..order - 1 |-> sq[i][order - i - 1]]
         IN  /\ \A i \in 0..order - 1 :
                   /\ SumTo(sq[i], order - 1) = magic_const
                   /\ SumTo(column(i), order - 1) = magic_const
             /\ SumTo(diag, order - 1) = magic_const
             /\ SumTo(anti, order - 1) = magic_const

(***************************************************************************)
(* magic_square.py: transform_magic_square.                                *)
(***************************************************************************)
\* np.rot90(square, axes=(0, 1)): counterclockwise
rot90_ccw(sq) ==
    LET n == Rows(sq)
    IN  [i \in 0..n - 1 |-> [j \in 0..n - 1 |-> sq[j][n - 1 - i]]]

\* np.rot90(square, axes=(1, 0)): clockwise
rot90_cw(sq) ==
    LET n == Rows(sq)
    IN  [i \in 0..n - 1 |-> [j \in 0..n - 1 |-> sq[n - 1 - j][i]]]

\* square[a, :], square[b, :] = square[b, :], square[a, :].copy()
SwapRows(sq, a, b) ==
    LET saved == sq[a]
        first == [sq EXCEPT ![a] = sq[b]]
    IN  [first EXCEPT ![b] = saved]

\* square[:, a], square[:, b] = square[:, b], square[:, a].copy()
SwapCols(sq, a, b) ==
    [r \in DOMAIN sq |->
        LET saved == sq[r][a]
            first == [sq[r] EXCEPT ![a] = sq[r][b]]
        IN  [first EXCEPT ![b] = saved]]

\* The upper bound of randint(0, operations), wrongly 4 for every order.
OperationsAlwaysFour(order) == 4

\* operations = 2 if order == 3 or (order % 4 != 0 and order % 2 == 0) else 4
Operations(order) ==
    IF order = 3 \/ (order % 4 # 0 /\ order % 2 = 0) THEN 2 ELSE 4

\* The (i, j) an iteration can use for operations 3 and 4.
PairDraws(order) ==
    IF order \in {4, 5} THEN { <<0, 1>> }
    ELSE { <<i, j>> \in (0..order \div 4) \X (0..(order - 2) \div 2) : i + 1 <= j }

\* Everything one iteration can draw: the operation and its indices.
Draws(order) ==
    { [operation |-> op, i |-> 0, j |-> 0] : op \in {0, 1} }
    \cup { [operation |-> 2, i |-> i, j |-> 0] :
             i \in IF 2 <= Operations(order) THEN 0..order - 1 ELSE {} }
    \cup { [operation |-> op, i |-> p[1], j |-> p[2]] :
             op \in {3, 4} \cap (0..Operations(order)), p \in PairDraws(order) }

\* The body of one iteration of the loop.
ApplyDraw(sq, d) ==
    LET order == Rows(sq)
        i_op == order - d.i - 1
        j_op == order - d.j - 1
    IN  CASE d.operation = 0 -> rot90_ccw(sq)
          [] d.operation = 1 -> rot90_cw(sq)
          [] d.operation = 2 -> SwapCols(SwapRows(sq, d.i, i_op), d.i, i_op)
          [] d.operation = 3 -> SwapRows(SwapRows(sq, d.i, d.j), i_op, j_op)
          [] d.operation = 4 -> SwapCols(SwapCols(sq, d.i, d.j), i_op, j_op)

\* the copy left out: the working grid is the caller's array
deepcopy_alias(sq) == [grid |-> sq, shares |-> TRUE]

\* square = deepcopy(square): an equal grid in memory of its own
deepcopy(sq) == [grid |-> sq, shares |-> FALSE]

\* np.rot90 returns a view: no memory is written, the view is turned
TurnsAfter(t, d) ==
    CASE d.operation = 0 -> (t + 1) % 4
      [] d.operation = 1 -> (t + 3) % 4
      [] OTHER -> t

\* operations 2, 3 and 4 assign to rows and columns of the working grid
WritesInPlace(d) == d.operation \in {2, 3, 4}

\* the memory under a view that shows grid sq after t counterclockwise turns
RECURSIVE Memory(_, _)
Memory(sq, t) == IF t = 0 THEN sq ELSE Memory(rot90_cw(sq), t - 1)

\* if amount < 0: amount = order
Iterations(sq, n) == IF n < 0 THEN Rows(sq) ELSE n

(***************************************************************************)
(* Grids handed to transform_magic_square from outside the generator.      *)
(***************************************************************************)
Grid(rows) == [r \in 0..Len(rows) - 1 |->
                 [c \in 0..Len(rows[r + 1]) - 1 |-> rows[r + 1][c + 1]]]

\* magic, but not centrally symmetric
Unsymmetric4 ==
    Grid(<< <<1, 2, 15, 16>>, <<12, 14, 3, 5>>, <<13, 7, 10, 4>>, <<8, 11, 6, 9>> >>)

\* magic, of an order that is even and not a multiple of 4
Magic6 ==
    Grid(<< <<35, 1, 6, 26, 19, 24>>, <<3, 32, 7, 21, 23, 25>>,
            <<31, 9, 2, 22, 27, 20>>, <<8, 28, 33, 17, 10, 15>>,
            <<30, 5, 34, 12, 14, 16>>, <<4, 36, 29, 13, 18, 11>> >>)

\* not magic, and not square-shaped
NotMagic3 == Grid(<< <<1, 2, 3>>, <<4, 5, 6>>, <<7, 8, 9>> >>)
NotSquare == Grid(<< <<1, 2, 3>>, <<4, 5, 6>> >>)

OutsideGrids == {Unsymmetric4, Magic6, NotMagic3, NotSquare}

NoGrid == [r \in {} |-> 0]

(***************************************************************************)
(* The generate-then-transform pipeline.                                   *)
(***************************************************************************)
Init ==
    /\ pc = "idle"
    /\ requested = 0
    /\ arg = NoGrid
    /\ square = NoGrid
    /\ amount = 0
    /\ remaining = 0
    /\ operation = -1
    /\ returned = NoGrid
    /\ shares = FALSE
    /\ turns = 0
    /\ mode = "none"
    /\ text = <<>>
    /\ layout = NoGrid
    /\ offset = 0
    /\ filler = 0
    /\ ciphertext = <<>>
    /\ key = <<>>
    /\ keyGiven = TRUE
    /\ result = [kind |-> "none"]

\* create_square(n)
CreateSquare ==
    /\ pc = "idle"
    /\ \E n \in 1..MaxOrder :
          /\ requested' = n
          /\ arg' = create_square(n)
    /\ pc' = "created"
    /\ UNCHANGED <<square, amount, remaining, operation, returned, shares, turns>>
    /\ UNCHANGED cipherVars

\* a grid that did not come from create_square
GivenGrid ==
    /\ pc = "idle"
    /\ \E g \in OutsideGrids : arg' = g
    /\ pc' = "created"
    /\ UNCHANGED <<requested, square, amount, remaining, operation, returned,
                   shares, turns>>
    /\ UNCHANGED cipherVars

\* transform_magic_square(arg, n), up to the loop; a negative n stands for
\* order iterations, taken here only while that stays within MaxAmount + 1
TransformEnter ==
    /\ pc = "created"
    /\ Rows(arg) <= MaxTransformOrder
    /\ \E n \in -1..MaxAmount :
          /\ n >= 0 \/ Rows(arg) <= MaxAmount + 1
          /\ amount' = n
          /\ IF ~check_square_magic(arg)
             THEN /\ returned' = arg
                  /\ pc' = "returned"
                  /\ UNCHANGED <<square, remaining, shares>>
             ELSE /\ square' = deepcopy(arg).grid
                  /\ shares' = deepcopy(arg).shares
                  /\ remaining' = Iterations(arg, n)
                  /\ pc' = "loop"
                  /\ UNCHANGED returned
    /\ turns' = 0
    /\ UNCHANGED <<requested, arg, operation>>
    /\ UNCHANGED cipherVars

\* one iteration of the loop
TransformIteration ==
    /\ pc = "loop"
    /\ remaining > 0
    /\ \E d \in Draws(Rows(square)) :
          /\ square' = ApplyDraw(square, d)
          /\ operation' = d.operation
          /\ turns' = TurnsAfter(turns, d)
          /\ arg' = IF shares /\ WritesInPlace(d)
                    THEN Memory(ApplyDraw(square, d), turns)
                    ELSE arg
    /\ remaining' = remaining - 1
    /\ UNCHANGED <<pc, requested, amount, returned, shares>>
    /\ UNCHANGED cipherVars

\* return square
TransformReturn ==
    /\ pc = "loop"
    /\ remaining = 0
    /\ returned' = square
    /\ pc' = "returned"
    /\ UNCHANGED <<requested, arg, square, amount, remaining, operation, shares, turns>>
    /\ UNCHANGED cipherVars

Next ==
    \/ CreateSquare
    \/ GivenGrid
    \/ TransformEnter
    \/ TransformIteration
    \/ TransformReturn

Spec == Init /\ [][Next]_vars

(***************************************************************************)
(* Properties of the generator and the transformer.                        *)
(***************************************************************************)
Max(a, b) == IF a >= b THEN a ELSE b

Constructible(m) == m % 2 = 1 \/ m % 4 = 0

\* the smallest order >= max(n, 3) that is odd or divisible by 4
ConstructibleOrder(n) ==
    CHOOSE m \in Max(n, 3)..Max(n, 3) + 3 :
        /\ Constructible(m)
        /\ \A k \in Max(n, 3)..m - 1 : ~Constructible(k)

\* g is an m x m grid whose rows, columns and diagonals sum to m(m*m+1)/2
MagicOfOrder(g, m) ==
    LET M == (m * (m * m + 1)) \div 2
    IN  /\ DOMAIN g = 0..m - 1
        /\ \A r \in 0..m - 1 : DOMAIN g[r] = 0..m - 1
        /\ \A r \in 0..m - 1 : SumTo(g[r], m - 1) = M
        /\ \A c \in 0..m - 1 : SumTo([r \in 0..m - 1 |-> g[r][c]], m - 1) = M
        /\ SumTo([i \in 0..m - 1 |-> g[i][i]], m - 1) = M
        /\ SumTo([i \in 0..m - 1 |-> g[i][m - 1 - i]], m - 1) = M

CellValues(g) == { g[r][c] : r \in DOMAIN g, c \in DOMAIN g[0] }

C4_TransformPreservesMagic ==
    (pc = "returned" /\ check_square_magic(arg)) => check_square_magic(returned)

RestrictedOrder(order) == order = 3 \/ (order % 2 = 0 /\ order % 4 # 0)

Opposite(n, a, b, x) ==
    CASE x = a -> b
      [] x = b -> a
      [] x = n - 1 - a -> n - 1 - b
      [] x = n - 1 - b -> n - 1 - a
      [] OTHER -> x

IsClockwiseTurn(R, S) ==
    LET n == Rows(S)
    IN  \A r, c \in 0..n - 1 : R[r][c] = S[n - 1 - c][r]

IsCounterclockwiseTurn(R, S) ==
    LET n == Rows(S)
    IN  \A r, c \in 0..n - 1 : R[r][c] = S[c][n - 1 - r]

\* row i and column i exchanged with their opposites
IsSymmetricSwap(R, S) ==
    LET n == Rows(S)
    IN  \E i \in 0..n - 1 :
           \A r, c \in 0..n - 1 :
              R[r][c] = S[Opposite(n, i, n - 1 - i, r)][Opposite(n, i, n - 1 - i, c)]

\* rows (or columns) i and j exchanged, and their opposites exchanged
IsPairedSwap(R, S) ==
    LET n == Rows(S)
    IN  \E i, j \in 0..(n - 2) \div 2 :
           /\ i < j
           /\ \/ \A r, c \in 0..n - 1 : R[r][c] = S[Opposite(n, i, j, r)][c]
              \/ \A r, c \in 0..n - 1 : R[r][c] = S[r][Opposite(n, i, j, c)]

InTransform == pc \in {"loop", "returned"} /\ operation # -1

OneIterationDone ==
    pc = "returned" /\ amount = 1 /\ check_square_magic(arg)

\* C9 as stated: for order 3, or an even order that is no multiple of 4, every
\* iteration is a quarter turn, so transform_magic_square(S, 1) is a quarter
\* turn of S; for every other order an iteration is one of the four operations.
C9_OnlyQuarterTurnsWhenRestricted ==
    /\ InTransform =>
          IF RestrictedOrder(Rows(arg)) THEN operation \in {0, 1}
                                        ELSE operation \in 0..4
    /\ (OneIterationDone /\ RestrictedOrder(Rows(arg))) =>
          IsClockwiseTurn(returned, arg) \/ IsCounterclockwiseTurn(returned, arg)

\* C9 (amended): for order 3, or an even order that is no multiple of 4, every
\* iteration is a quarter turn or the symmetric single swap, never a paired
\* swap, so transform_magic_square(S, 1) is a quarter turn or a symmetric
\* single swap of S; for every other order an iteration is a quarter turn, the
\* symmetric single swap or a paired swap.
C9_NoPairedSwapWhenRestricted ==
    /\ InTransform =>
          IF RestrictedOrder(Rows(arg)) THEN operation \in {0, 1, 2}
                                        ELSE operation \in 0..4
    /\ OneIterationDone =>
          \/ IsClockwiseTurn(returned, arg)
          \/ IsCounterclockwiseTurn(returned, arg)
          \/ IsSymmetricSwap(returned, arg)
          \/ ~RestrictedOrder(Rows(arg)) /\ IsPairedSwap(returned, arg)

\* an order-3 square came back from one iteration that was a symmetric swap
C9_Witness ==
    /\ OneIterationDone
    /\ Rows(arg) = 3
    /\ operation = 2
    /\ returned # arg

(***************************************************************************)
(* cipher.py: strings, formatting and parsing.                             *)
(***************************************************************************)
MaxTextLen == 25
MaxSpecialPos == 2
MaxTransformations == 1

NO_SYMBOL == 95
DELIMITER == 39
MIN_BITS == 4

\* s[p] of a Python string or list, p >= 0
At(s, p) == s[p + 1]

\* a ^ b of non-negative integers
RECURSIVE Xor(_, _)
Xor(a, b) ==
    IF a = 0 THEN b
    ELSE IF b = 0 THEN a
    ELSE ((a + b) % 2) + 2 * Xor(a \div 2, b \div 2)

\* ceil(sqrt(n))
CeilSqrt(n) == CHOOSE k \in 0..n : k * k >= n /\ (k = 0 \/ (k - 1) * (k - 1) < n)

\* layout.flatten(): row-major
flatten(sq) ==
    LET n == Rows(sq)
    IN  [i \in 0..n * n - 1 |-> sq[i \div n][i % n]]

\* np.amax(layout)
amax(lay) == CHOOSE m \in { lay[i] : i \in DOMAIN lay } :
                 \A i \in DOMAIN lay : lay[i] <= m

\* bits = MIN_BITS; while max_val >= 2 ** bits: bits *= 2
RECURSIVE AdjustBits(_, _)
AdjustBits(bits, max_val) ==
    IF max_val >= 2 ^ bits THEN AdjustBits(bits * 2, max_val) ELSE bits

\* f"{n:b}"
RECURSIVE FormatBinary(_)
FormatBinary(n) ==
    IF n < 2 THEN << 48 + n >>
    ELSE FormatBinary(n \div 2) \o << 48 + (n % 2) >>

\* f"{n:0{bits}b}"
FormatPadded(n, bits) ==
    LET digits == FormatBinary(n)
    IN  IF Len(digits) >= bits THEN digits
        ELSE [i \in 1..bits - Len(digits) |-> 48] \o digits

\* ''.join(parts), parts an array over 0..n-1 of strings
RECURSIVE JoinTo(_, _)
JoinTo(parts, k) == IF k < 0 THEN <<>> ELSE JoinTo(parts, k - 1) \o parts[k]

Join(parts) == JoinTo(parts, Cardinality(DOMAIN parts) - 1)

\* s.replace(c, '')
RECURSIVE Remove(_, _)
Remove(s, c) ==
    IF s = <<>> THEN <<>>
    ELSE IF Head(s) = c THEN Remove(Tail(s), c)
    ELSE << Head(s) >> \o Remove(Tail(s), c)

\* s.split(d), d one character
RECURSIVE Split(_, _)
Split(s, d) ==
    IF \A i \in 1..Len(s) : s[i] # d THEN << s >>
    ELSE LET k == CHOOSE i \in 1..Len(s) :
                     s[i] = d /\ \A h \in 1..i - 1 : s[h] # d
         IN  << SubSeq(s, 1, k - 1) >> \o Split(SubSeq(s, k + 1, Len(s)), d)

\* whether int(s, 2) parses s, for s of digits, delimiters and letters
IsBinary(s) == Len(s) > 0 /\ \A i \in 1..Len(s) : s[i] \in {48, 49}

\* int(s, 2)
RECURSIVE ParseBinary(_)
ParseBinary(s) ==
    IF s = <<>> THEN 0
    ELSE 2 * ParseBinary(SubSeq(s, 1, Len(s) - 1)) + (s[Len(s)] - 48)

\* [key[i:i + bits] for i in range(0, len(key), bits)], bits > 0
Chunks(blob, bits) ==
    [k \in 0..((Len(blob) + bits - 1) \div bits) - 1 |->
        SubSeq(blob, k * bits + 1, Min((k + 1) * bits, Len(blob)))]

(***************************************************************************)
(* cipher.py: encrypt and encrypt_enhanced.                                *)
(***************************************************************************)
\* the loop body's iterations of one call, drawn one after the other
RECURSIVE ApplyFrom(_, _, _)
ApplyFrom(sq, draws, i) ==
    IF i > Len(draws) THEN sq
    ELSE ApplyFrom(ApplyDraw(sq, draws[i]), draws, i + 1)

\* transform_magic_square(sq, n) when its iterations draw `draws`
transform_magic_square(sq, n, draws) ==
    IF ~check_square_magic(sq) THEN sq ELSE ApplyFrom(sq, draws, 1)

\* the draws a call transform_magic_square(sq, n) can make
DrawSequences(sq, n) == [1..Iterations(sq, n) -> Draws(Rows(sq))]

\* the mapping with the comparison off by one
EncryptMapStrict(txt, lay, empty) ==
    [i \in DOMAIN lay |->
        IF lay[i] < Len(txt) THEN << At(txt, lay[i] - 1) >> ELSE << empty >>]

\* the encryption loop: ciphertext[i] for every i
EncryptMap(txt, lay, empty) ==
    [i \in DOMAIN lay |->
        IF lay[i] <= Len(txt) THEN << At(txt, lay[i] - 1) >> ELSE << empty >>]

\* key = ''.join(f"{i:0{bits}b}" for i in layout)
KeyBlob(lay, bits) ==
    Join([i \in DOMAIN lay |-> FormatPadded(lay[i], bits)])

encrypt(txt, transformations, draws, empty, delimiter) ==
    LET text_len == Len(txt)
        lay == flatten(transform_magic_square(
                   create_square(CeilSqrt(text_len)), transformations, draws))
        bits == AdjustBits(MIN_BITS, amax(lay))
    IN  [layout |-> lay,
         key |-> FormatBinary(bits) \o << delimiter >> \o KeyBlob(lay, bits),
         ciphertext |-> Join(EncryptMap(txt, lay, empty)),
         filler |-> empty]

\* the while loop that moves `empty` to the next character
RECURSIVE AdjustFiller(_, _, _)
AdjustFiller(txt, lay, empty) ==
    IF \E i \in 0..Len(txt) - 1 : Xor(At(txt, i), lay[i]) = empty
    THEN AdjustFiller(txt, lay, empty + 1)
    ELSE empty

EncryptEnhancedMap(txt, lay, off, empty) ==
    [i \in DOMAIN lay |->
        IF lay[i] <= Len(txt) THEN << Xor(At(txt, lay[i] - 1), off) >>
        ELSE << empty >>]

encrypt_enhanced(txt, transformations, draws, off, empty0, delimiter) ==
    LET text_len == Len(txt)
        lay == flatten(transform_magic_square(
                   create_square(CeilSqrt(text_len)), transformations, draws))
        empty == AdjustFiller(txt, lay, empty0)
        bits == AdjustBits(MIN_BITS, amax(lay))
    IN  [layout |-> lay,
         key |-> FormatBinary(bits) \o << delimiter >> \o FormatBinary(off)
                 \o << delimiter >> \o KeyBlob(lay, bits),
         ciphertext |-> Join(EncryptEnhancedMap(txt, lay, off, empty)),
         filler |-> empty]

(***************************************************************************)
(* cipher.py: check_layout, decrypt and decrypt_enhanced.                  *)
(***************************************************************************)
\* what a call did: it returned (status, plaintext or message), or it raised
Returned(status, plaintext, message) ==
    [kind |-> "return", status |-> status, plaintext |-> plaintext,
     message |-> message]

Raised(exception) ==
    [kind |-> "raise", status |-> FALSE, plaintext |-> <<>>, message |-> exception]

\* isinstance(sqrt(layout.size), int): math.sqrt returns a float
SqrtIsInt(size) == FALSE

\* the checks with the contents check ahead of the size check
check_layout_contents_first(lay, txt) ==
    LET size == Cardinality(DOMAIN lay)
    IN  IF SqrtIsInt(size) THEN "Wrong key shape"
        ELSE IF Cardinality({ lay[i] : i \in DOMAIN lay }) # size
             THEN "Wrong key contents"
        ELSE IF Len(txt) # size THEN "Wrong key size"
        ELSE "The key is right"

\* the message of check_layout; its status is message = "The key is right"
check_layout(lay, txt) ==
    LET size == Cardinality(DOMAIN lay)
    IN  IF SqrtIsInt(size) THEN "Wrong key shape"
        ELSE IF Len(txt) # size THEN "Wrong key size"
        ELSE IF Cardinality({ lay[i] : i \in DOMAIN lay }) # size
             THEN "Wrong key contents"
        ELSE "The key is right"

\* bits = int(bits, 2); layout = [int(key[i:i + bits], 2) for i in range(...)]
\* ok is FALSE where the code raises ValueError (range() with a step of zero too)
DecodeLayout(bits_field, blob) ==
    IF ~IsBinary(bits_field) \/ ParseBinary(bits_field) = 0
    THEN [ok |-> FALSE, layout |-> NoGrid]
    ELSE LET chunks == Chunks(blob, ParseBinary(bits_field))
         IN  IF \E k \in DOMAIN chunks : ~IsBinary(chunks[k])
             THEN [ok |-> FALSE, layout |-> NoGrid]
             ELSE [ok |-> TRUE,
                   layout |-> [k \in DOMAIN chunks |-> ParseBinary(chunks[k])]]

\* for i in range(layout.size): plaintext[layout[i] - 1] = values[i]
\* a numpy index below zero counts from the end; ok is FALSE on IndexError
RECURSIVE PlaceFrom(_, _, _, _)
PlaceFrom(plaintext, lay, values, i) ==
    LET size == Cardinality(DOMAIN lay)
        index == lay[i] - 1
    IN  IF i >= size THEN [ok |-> TRUE, plaintext |-> plaintext]
        ELSE IF index < -size \/ index >= size
             THEN [ok |-> FALSE, plaintext |-> plaintext]
        ELSE PlaceFrom(
                 [plaintext EXCEPT ![IF index < 0 THEN index + size ELSE index]
                                      = values[i]],
                 lay, values, i + 1)

\* the part of decrypt after the key is decoded
DecryptWith(txt, lay, empty) ==
    LET message == check_layout(lay, txt)
        blank == [i \in DOMAIN lay |-> <<>>]
        placed == PlaceFrom(blank, lay, [i \in DOMAIN lay |-> << At(txt, i) >>], 0)
    IN  IF message # "The key is right" THEN Returned(FALSE, <<>>, message)
        ELSE IF ~placed.ok THEN Raised("IndexError")
        ELSE Returned(TRUE, Remove(Join(placed.plaintext), empty), "")

\* decrypt(txt, k, empty, delimiter); given = FALSE: k is None
decrypt(txt, given, k, empty, delimiter) ==
    IF ~given \/ Len(k) = 0
    THEN [result |-> Returned(FALSE, <<>>, "Wrong key length"), layout |-> NoGrid]
    ELSE LET fields == Split(k, delimiter)
             decoded == DecodeLayout(fields[1], fields[2])
         IN  IF Len(fields) # 2 \/ ~decoded.ok
             THEN [result |-> Returned(FALSE, <<>>, "Wrong key format"),
                   layout |-> NoGrid]
             ELSE [result |-> DecryptWith(txt, decoded.layout, empty),
                   layout |-> decoded.layout]

\* the part of decrypt_enhanced after the key is decoded
DecryptEnhancedWith(txt, lay, off, empty) ==
    LET message == check_layout(lay, txt)
        blank == [i \in DOMAIN lay |-> <<>>]
        values == [i \in DOMAIN lay |->
                     IF At(txt, i) # empty THEN << Xor(At(txt, i), off) >>
                     ELSE <<>>]
        placed == PlaceFrom(blank, lay, values, 0)
    IN  IF message # "The key is right" THEN Returned(FALSE, <<>>, message)
        ELSE IF ~placed.ok THEN Raised("IndexError")
        ELSE Returned(TRUE, Join(placed.plaintext), "")

decrypt_enhanced(txt, given, k, empty, delimiter) ==
    IF ~given \/ Len(k) = 0
    THEN [result |-> Returned(FALSE, <<>>, "Wrong key length"), layout |-> NoGrid]
    ELSE LET fields == Split(k, delimiter)
             decoded == DecodeLayout(fields[1], fields[3])
         IN  IF Len(fields) # 3 \/ ~IsBinary(fields[2]) \/ ~decoded.ok
             THEN [result |-> Returned(FALSE, <<>>, "Wrong key format"),
                   layout |-> NoGrid]
             ELSE [result |-> DecryptEnhancedWith(txt, decoded.layout,
                                                  ParseBinary(fields[2]), empty),
                   layout |-> decoded.layout]

(***************************************************************************)
(* Encrypt, then decrypt what encrypt produced.                            *)
(***************************************************************************)
\* 'a', 'b', ...: a text of n different letters
Letters(n) == [i \in 1..n |-> 96 + i]

\* the filler itself, and 'W', which is the filler XOR 8
SpecialChars == {NO_SYMBOL, 87}

Hello == << 72, 69, 76, 76, 79 >>

Texts ==
    { Letters(n) : n \in 0..MaxTextLen }
    \cup UNION { { [Letters(n) EXCEPT ![p] = c] :
                     p \in 1..Min(n, MaxSpecialPos), c \in SpecialChars } :
                   n \in 1..MaxTextLen }
    \cup { Hello }

SquareFor(txt) == create_square(CeilSqrt(Len(txt)))

\* encrypt(text, k)
Encrypt ==
    /\ pc = "idle"
    /\ \E txt \in Texts, k \in 0..MaxTransformations :
          \E draws \in DrawSequences(SquareFor(txt), k) :
             LET out == encrypt(txt, k, draws, NO_SYMBOL, DELIMITER)
             IN  /\ text' = txt
                 /\ amount' = k
                 /\ layout' = out.layout
                 /\ filler' = out.filler
                 /\ ciphertext' = out.ciphertext
                 /\ key' = out.key
    /\ mode' = "basic"
    /\ pc' = "encrypted"
    /\ UNCHANGED <<requested, arg, square, remaining, operation, returned, shares, turns>>
    /\ UNCHANGED <<offset, keyGiven, result>>

\* encrypt_enhanced(text, k)
EncryptEnhanced ==
    /\ pc = "idle"
    /\ \E txt \in Texts, k \in 0..MaxTransformations :
          \E draws \in DrawSequences(SquareFor(txt), k),
             off \in 0..Rows(SquareFor(txt)) * Rows(SquareFor(txt)) :
             LET out == encrypt_enhanced(txt, k, draws, off, NO_SYMBOL, DELIMITER)
             IN  /\ text' = txt
                 /\ amount' = k
                 /\ offset' = off
                 /\ layout' = out.layout
                 /\ filler' = out.filler
                 /\ ciphertext' = out.ciphertext
                 /\ key' = out.key
    /\ mode' = "enhanced"
    /\ pc' = "encrypted"
    /\ UNCHANGED <<requested, arg, square, remaining, operation, returned, shares, turns>>
    /\ UNCHANGED <<keyGiven, result>>

\* decrypt(ciphertext, key)
Decrypt ==
    /\ pc = "encrypted"
    /\ mode = "basic"
    /\ result' = decrypt(ciphertext, keyGiven, key, NO_SYMBOL, DELIMITER).result
    /\ pc' = "decrypted"
    /\ UNCHANGED squareVars
    /\ UNCHANGED <<mode, text, layout, offset, filler, ciphertext, key, keyGiven>>

\* decrypt_enhanced(ciphertext, key)
DecryptEnhanced ==
    /\ pc = "encrypted"
    /\ mode = "enhanced"
    /\ result' = decrypt_enhanced(ciphertext, keyGiven, key,
                                  NO_SYMBOL, DELIMITER).result
    /\ pc' = "decrypted"
    /\ UNCHANGED squareVars
    /\ UNCHANGED <<mode, text, layout, offset, filler, ciphertext, key, keyGiven>>

BasicNext ==
    \/ Encrypt
    \/ Decrypt

BasicSpec == Init /\ [][BasicNext]_vars

EnhancedNext ==
    \/ EncryptEnhanced
    \/ DecryptEnhanced

EnhancedSpec == Init /\ [][EnhancedNext]_vars

(***************************************************************************)
(* Decrypt with any ciphertext and any key.                                *)
(***************************************************************************)
MaxKeyLen == 6
MaxCipherLen == 2

StringsUpTo(alphabet, n) == UNION { [1..m -> alphabet] : m \in 0..n }

\* '0', '1', the delimiter and 'x'
KeyChars == {48, 49, DELIMITER, 120}

\* 'a' and the filler
CipherChars == {97, NO_SYMBOL}

\* decrypt(txt, k)
DecryptGiven ==
    /\ pc = "idle"
    /\ \E txt \in StringsUpTo(CipherChars, MaxCipherLen),
          k \in StringsUpTo(KeyChars, MaxKeyLen) :
          LET out == decrypt(txt, TRUE, k, NO_SYMBOL, DELIMITER)
          IN  /\ ciphertext' = txt
              /\ key' = k
              /\ layout' = out.layout
              /\ result' = out.result
    /\ mode' = "basic"
    /\ keyGiven' = TRUE
    /\ pc' = "decrypted"
    /\ UNCHANGED squareVars
    /\ UNCHANGED <<text, offset, filler>>

\* decrypt_enhanced(txt, k)
DecryptEnhancedGiven ==
    /\ pc = "idle"
    /\ \E txt \in StringsUpTo(CipherChars, MaxCipherLen),
          k \in StringsUpTo(KeyChars, MaxKeyLen) :
          LET out == decrypt_enhanced(txt, TRUE, k, NO_SYMBOL, DELIMITER)
          IN  /\ ciphertext' = txt
              /\ key' = k
              /\ layout' = out.layout
              /\ result' = out.result
    /\ mode' = "enhanced"
    /\ keyGiven' = TRUE
    /\ pc' = "decrypted"
    /\ UNCHANGED squareVars
    /\ UNCHANGED <<text, offset, filler>>

\* decrypt(txt, None) and decrypt_enhanced(txt, None)
DecryptNoKey ==
    /\ pc = "idle"
    /\ \E txt \in StringsUpTo(CipherChars, MaxCipherLen), m \in {"basic", "enhanced"} :
          LET out == IF m = "basic"
                     THEN decrypt(txt, FALSE, <<>>, NO_SYMBOL, DELIMITER)
                     ELSE decrypt_enhanced(txt, FALSE, <<>>, NO_SYMBOL, DELIMITER)
          IN  /\ ciphertext' = txt
              /\ mode' = m
              /\ layout' = out.layout
              /\ result' = out.result
    /\ keyGiven' = FALSE
    /\ pc' = "decrypted"
    /\ UNCHANGED squareVars
    /\ UNCHANGED <<text, offset, filler, key>>

KeyNext ==
    \/ DecryptGiven
    \/ DecryptEnhancedGiven
    \/ DecryptNoKey

KeySpec == Init /\ [][KeyNext]_vars

(***************************************************************************)
(* Properties of the cipher engine.                                        *)
(***************************************************************************)
RoundTripDone(m) == pc = "decrypted" /\ mode = m /\ text # <<>>

\* C1: for every non-empty text and every k, decrypt(ciphertext, key) of what
\* encrypt(text, k) returned is (True, text).
C1_BasicRoundTrip ==
    RoundTripDone("basic") => result = Returned(TRUE, text, "")

\* C2: for every non-empty text, every k and every offset, decrypt_enhanced
\* (ciphertext, key) of what encrypt_enhanced(text, k) returned, with the same
\* filler and delimiter arguments, is (True, text).
C2_EnhancedRoundTrip ==
    RoundTripDone("enhanced") => result = Returned(TRUE, text, "")

Encrypted(m) == pc \in {"encrypted", "decrypted"} /\ mode = m

C10_FillerUnambiguous ==
    Encrypted("enhanced") =>
        \A i \in DOMAIN layout :
            ciphertext[i + 1] = filler => layout[i] > Len(text)

(***************************************************************************)
(* Properties of decrypt on any key.                                       *)
(***************************************************************************)
\* C5: decrypt and decrypt_enhanced return a pair for every ciphertext and
\* every key; none makes them raise.
C5_DecryptNeverRaises ==
    pc = "decrypted" => result.kind = "return"

Fields(m) == IF m = "basic" THEN 2 ELSE 3

Delimiters(k) == Cardinality({ i \in 1..Len(k) : k[i] = DELIMITER })

\* the characters of k between its n-th delimiter and the next
Field(k, n) ==
    LET marks == { i \in 1..Len(k) : k[i] = DELIMITER }
        before == IF n = 0 THEN 0
                  ELSE CHOOSE i \in marks :
                           Cardinality({ h \in marks : h < i }) = n - 1
        after == IF n = Cardinality(marks) THEN Len(k) + 1
                 ELSE CHOOSE i \in marks :
                          Cardinality({ h \in marks : h < i }) = n
    IN  SubSeq(k, before + 1, after - 1)

Digits(s) == \A i \in 1..Len(s) : s[i] \in {48, 49}

\* k splits into the engine's fields: a bit width that is a positive binary
\* number, for the enhanced engine a binary offset, and a stream of digits
WellFormedKey(k, m) ==
    /\ Delimiters(k) = Fields(m) - 1
    /\ \A n \in 0..Fields(m) - 1 : Digits(Field(k, n))
    /\ \A n \in 0..Fields(m) - 2 : Field(k, n) # <<>>
    /\ \E i \in 1..Len(Field(k, 0)) : Field(k, 0)[i] = 49

Duplicated(lay) == \E i, j \in DOMAIN lay : i # j /\ lay[i] = lay[j]

C7_AcceptedKeyIsPermutation ==
    (pc = "decrypted" /\ result.kind = "return" /\ result.status) =>
        /\ Cardinality(DOMAIN layout) = Len(ciphertext)
        /\ { layout[i] : i \in DOMAIN layout } = 1..Len(ciphertext)

(***************************************************************************)
(* magic_square.py: check_magic_square_symmetry.                           *)
(***************************************************************************)
check_magic_square_symmetry(sq) ==
    IF Rows(sq) # Cols(sq) THEN FALSE
    ELSE LET order == Rows(sq)
             sum_const == order * order + 1
         IN  \A row \in 0..(order \div 2) - 1, col \in 0..(order \div 2) - 1 :
                 sq[row][col] + sq[order - row - 1][order - col - 1] = sum_const

(***************************************************************************)
(* Properties of the generate-then-transform pipeline.                     *)
(***************************************************************************)
\* every cell and the cell opposite to it through the centre sum to N*N + 1
CentrallySymmetric(g) ==
    LET N == Rows(g)
    IN  \A r, c \in 0..N - 1 : g[r][c] + g[N - 1 - r][N - 1 - c] = N * N + 1

\* the grid the pipeline holds: the generated one, the working one, the result
PipelineGrid ==
    CASE pc = "created" -> arg
      [] pc = "loop" -> square
      [] pc = "returned" -> returned

\* C11: starting from create_square(n), after every prefix of the operations
\* transform_magic_square applies, the working square is magic, centrally
\* symmetric and holds exactly the values 1..N*N; and the grid passed in is
\* never modified (it stays the grid create_square returned).
C11_PipelineInvariant ==
    (requested > 0 /\ pc \in {"created", "loop", "returned"}) =>
        LET N == Rows(arg)
        IN  /\ MagicOfOrder(PipelineGrid, N)
            /\ CentrallySymmetric(PipelineGrid)
            /\ check_magic_square_symmetry(PipelineGrid)
            /\ CellValues(PipelineGrid) = 1..N * N
            /\ arg = create_square(requested)

\* two iterations on a generated square of order 7 ended with a paired swap
C11_Witness ==
    /\ requested = 7
    /\ pc = "returned"
    /\ amount = 2
    /\ operation \in {3, 4}
    /\ returned # arg
    /\ arg = create_square(7)

====
